---- MODULE Spec2Model ----
(***************************************************************************)
(* State-machine model of the tickr backend's management app: the timer    *)
(* endpoints of TimeEntryViewSet, the team invitation endpoints, and the   *)
(* tables they read and write (management/models.py, management/views.py). *)
(*                                                                         *)
(* Every table is a sequence of rows; the primary key of a row is its      *)
(* index.  timezone.now() is the variable now, in seconds.                 *)
(***************************************************************************)
EXTENDS Integers, Sequences, FiniteSets, TLC

VARIABLES
    now,          \* timezone.now()
    users,        \* user.User rows: id -> flags
    teams,        \* management.Team rows
    members,      \* management.TeamMember rows
    invitations,  \* management.TeamInvitation rows (token = primary key)
    projects,     \* management.Project rows
    entries,      \* management.TimeEntry rows
    pc,           \* position of each in-flight start request (interleaved runs)
    resp,         \* the response of the last request served
    settings      \* admin_site.AdminSettings rows: key -> row

vars == <<now, users, teams, members, invitations, projects, entries, pc, resp, settings>>

-----------------------------------------------------------------------------
(* Bounds of the model *)

MaxTime == 1        \* the clock of the timer runs stops at MaxTime seconds
MaxEntries == 2     \* TimeEntry rows created in one run
MaxDays == 7        \* the clock of the invitation runs stops after MaxDays days
MaxInvitations == 1 \* TeamInvitation rows created in one run
MaxSent == 2        \* TeamInvitation rows up to which send_team_invitation creates
MaxProjects == 1    \* Project rows created in one run
MaxHours == 100     \* the longest entry of the report runs, in hours

Procs == {1, 2}

\* SQL NULL / Python None for a foreign key, a time or a duration
NULL == -1

\* A user_id of the request body that int() rejects
Malformed == -2

Day == 86400

\* PATCH body without the field
Absent == -3

\* The elements of a finite set in some order
SeqOfSet(S) ==
    CHOOSE s \in [1..Cardinality(S) -> S] : \A x \in S : \E i \in DOMAIN s : s[i] = x
-----------------------------------------------------------------------------
(* Rows *)

\* models.TimeEntry: created by TimeEntry.objects.create in start
NewEntry(u, pid, t) ==
    [user |-> u, project |-> pid, start_time |-> t, end_time |-> NULL,
     duration |-> NULL, is_running |-> TRUE]

\* A response: the operation and its caller, the HTTP status and the "detail"
\* message (abbreviated).
Response(op, u, status, detail) ==
    [op |-> op, user |-> u, status |-> status, detail |-> detail]

NoResponse == Response("none", NULL, 0, "")

Idle == [at |-> "idle", user |-> NULL, arg |-> NULL]

-----------------------------------------------------------------------------
(* Timer engine: src/management/views.py, TimeEntryViewSet *)

\* TimeEntry.save(): duration is recomputed when both times are set
SaveEntry(e) ==
    IF e.end_time # NULL /\ e.start_time # NULL
    THEN [e EXCEPT !.duration = e.end_time - e.start_time]
    ELSE e

\* TimeEntry.objects.filter(user=u, is_running=True)
RunningIds(es, u) ==
    {i \in DOMAIN es : es[i].user = u /\ es[i].is_running}

\* .first() under Meta.ordering = ['-start_time']: a row with the greatest
\* start_time; rows with equal start_time come in either order.
FirstRunning(es, u) ==
    {i \in RunningIds(es, u) :
        \A j \in RunningIds(es, u) : es[j].start_time <= es[i].start_time}

\* ForceStop with the filter on the wrong flag value (is_running=False)
ForceStopWrongFlag(es, u, t) ==
    [i \in DOMAIN es |->
        IF es[i].user = u /\ ~es[i].is_running
        THEN [es[i] EXCEPT !.end_time = t, !.is_running = FALSE]
        ELSE es[i]]

\* ForceStop that clears the flag and leaves end_time as it is
ForceStopNoEndTime(es, u, t) ==
    [i \in DOMAIN es |->
        IF es[i].user = u /\ es[i].is_running
        THEN [es[i] EXCEPT !.is_running = FALSE]
        ELSE es[i]]

\* filter(user=u, is_running=True).update(end_time=now, is_running=False):
\* a bulk UPDATE, which does not call TimeEntry.save()
ForceStop(es, u, t) ==
    [i \in DOMAIN es |->
        IF es[i].user = u /\ es[i].is_running
        THEN [es[i] EXCEPT !.end_time = t, !.is_running = FALSE]
        ELSE es[i]]

\* TeamMember.objects.filter(team=t, user=u).exists()
IsMember(t, u) ==
    \E i \in DOMAIN members : members[i].team = t /\ members[i].user = u

\* MayUse without the owner-or-member test on the project's team
MayUseAnyTeam(u, pid) ==
    IF projects[pid].creator = u \/ users[u].is_staff
    THEN TRUE
    ELSE projects[pid].team # NULL

\* The permission test of start, as nested in the code
MayUse(u, pid) ==
    IF projects[pid].creator = u \/ users[u].is_staff
    THEN TRUE
    ELSE IF projects[pid].team # NULL
         THEN teams[projects[pid].team].owner = u \/ IsMember(projects[pid].team, u)
         ELSE FALSE

\* The part of start after the bulk UPDATE: resolve the project, test the
\* permission, create the entry.  es is the table as the request finds it.
StartCreate(es, u, pid) ==
    IF pid # NULL /\ pid \notin DOMAIN projects
    THEN /\ entries' = es
         /\ resp' = Response("start", u, 404, "Project not found")
    ELSE IF pid # NULL /\ ~MayUse(u, pid)
    THEN /\ entries' = es
         /\ resp' = Response("start", u, 403, "no permission")
    ELSE /\ Len(es) < MaxEntries
         /\ entries' = Append(es, NewEntry(u, pid, now))
         /\ resp' = Response("start", u, 201, "created")

\* POST entries/start/ served as one step
Start(u, pid) ==
    /\ StartCreate(ForceStop(entries, u, now), u, pid)
    /\ UNCHANGED <<now, users, settings, teams, members, invitations, projects, pc>>

\* POST entries/stop/
Stop(u) ==
    /\ IF RunningIds(entries, u) = {}
       THEN /\ entries' = entries
            /\ resp' = Response("stop", u, 400, "No active timer to stop")
       ELSE \E i \in FirstRunning(entries, u) :
            /\ entries' = [entries EXCEPT
                   ![i] = SaveEntry([entries[i] EXCEPT !.end_time = now,
                                                       !.is_running = FALSE])]
            /\ resp' = Response("stop", u, 200, "stopped")
    /\ UNCHANGED <<now, users, settings, teams, members, invitations, projects, pc>>

\* GET entries/active/: the entry it returns in the current state, or NULL
\* for its 404
Active(u) ==
    IF RunningIds(entries, u) = {}
    THEN {NULL}
    ELSE FirstRunning(entries, u)

\* PATCH entries/<id>/ (ModelViewSet.partial_update through TimeEntrySerializer):
\* is_running is a writable field; start_time, end_time and duration are
\* read-only.  The row is looked up in get_queryset (the caller's rows) and
\* saved with TimeEntry.save().
UpdateEntry(u, id, run) ==
    /\ IF id \in DOMAIN entries /\ entries[id].user = u
       THEN /\ entries' = [entries EXCEPT
                   ![id] = SaveEntry([entries[id] EXCEPT !.is_running = run])]
            /\ resp' = Response("update", u, 200, "updated")
       ELSE /\ entries' = entries
            /\ resp' = Response("update", u, 404, "Not found")
    /\ UNCHANGED <<now, users, settings, teams, members, invitations, projects, pc>>

\* The sum of f[i] over the indices i of the set S
SumOver(S, f) ==
    LET ids == SeqOfSet(S)
        Acc[k \in 0..Len(ids)] == IF k = 0 THEN 0 ELSE Acc[k - 1] + f[ids[k]]
    IN  Acc[Len(ids)]

\* ReportView.get: entries.aggregate(total=Sum('duration')) over the caller's
\* entries with end_time set; SUM skips NULL durations and is NULL, reported
\* as 0, when it has nothing to add.  The total in whole seconds.
ReportTotal(u) ==
    LET rows == {i \in DOMAIN entries : entries[i].user = u /\ entries[i].end_time # NULL}
    IN  SumOver({i \in rows : entries[i].duration # NULL},
                [i \in DOMAIN entries |-> entries[i].duration])

\* The character of a decimal digit
DigitChar(d) == <<"0", "1", "2", "3", "4", "5", "6", "7", "8", "9">>[d + 1]

\* format(n, "d"): the decimal digits of n, without padding
RECURSIVE Decimal(_)
Decimal(n) ==
    IF n < 10 THEN <<DigitChar(n)>> ELSE Decimal(n \div 10) \o <<DigitChar(n % 10)>>

\* f"{n:02d}": at least two digits, zero-padded
Pad2(n) == IF n < 10 THEN <<"0">> \o Decimal(n) ELSE Decimal(n)

\* h, r = divmod(total_seconds, 3600); m, s = divmod(r, 60);
\* f"{h:02d}:{m:02d}:{s:02d}"
FormatHMS(n) ==
    LET h == n \div 3600
        r == n % 3600
        m == r \div 60
        s == r % 60
    IN  Pad2(h) \o <<":">> \o Pad2(m) \o <<":">> \o Pad2(s)

\* GET reports/ (ReportView.get): the total_time of the response, as its
\* sequence of characters.  The per-project breakdown formats each project's
\* sum in the same way and is not kept.
Report(u) ==
    /\ resp' = Response("report", u, 200, FormatHMS(ReportTotal(u)))
    /\ UNCHANGED <<now, users, settings, teams, members, invitations, projects, entries, pc>>

\* The clock of the timer runs advances by one second
Tick ==
    /\ now < MaxTime
    /\ now' = now + 1
    /\ UNCHANGED <<users, settings, teams, members, invitations, projects, entries, pc, resp>>

-----------------------------------------------------------------------------
(* start served as two steps, so that requests interleave: the bulk UPDATE, *)
(* then the rest of the view.  pc[p] holds the request a worker p is in.    *)

StartUpdate(p, u, pid) ==
    /\ pc[p].at = "idle"
    /\ entries' = ForceStop(entries, u, now)
    /\ pc' = [pc EXCEPT ![p] = [at |-> "create", user |-> u, arg |-> pid]]
    /\ UNCHANGED <<now, users, settings, teams, members, invitations, projects, resp>>

StartFinish(p) ==
    /\ pc[p].at = "create"
    /\ StartCreate(entries, pc[p].user, pc[p].arg)
    /\ pc' = [pc EXCEPT ![p] = Idle]
    /\ UNCHANGED <<now, users, settings, teams, members, invitations, projects>>

-----------------------------------------------------------------------------
(* Team invitations: src/management/views.py, src/management/models.py *)

\* timedelta(days=7)
InviteDays == 7

\* f"invite-{uuid.uuid4().hex[:12]}@pending.local": an address of no user,
\* fresh for every invitation n
Placeholder(n) == 0 - n

\* TeamInvitation.objects.create(team, email, invited_by, expires_at) with the
\* model's defaults
NewInvitation(t, email, u, at) ==
    [team |-> t, email |-> email, invited_by |-> u, status |-> "pending",
     created_at |-> at, expires_at |-> at + InviteDays * Day, accepted_at |-> NULL]

\* is_valid without the expiry test
IsValidNoExpiry(inv, at) == inv.status = "pending"

\* is_valid without the status test
IsValidAnyStatus(inv, at) == inv.expires_at > at

\* is_valid with the expiry instant itself still valid
IsValidInclusive(inv, at) == inv.status = "pending" /\ inv.expires_at >= at

\* TeamInvitation.is_valid()
IsValid(inv, at) == inv.status = "pending" /\ inv.expires_at > at

\* TeamViewSet.get_queryset: the teams the user owns or is a member of
VisibleTeams(u) ==
    {t \in DOMAIN teams : teams[t].owner = u \/ IsMember(t, u)}

\* invite without the test that the requester owns the team
InviteNoOwnerTest(u, t) ==
    /\ IF t \notin VisibleTeams(u)
       THEN /\ invitations' = invitations
            /\ resp' = Response("invite", u, 404, "Not found")
       ELSE /\ Len(invitations) < MaxInvitations
            /\ invitations' = Append(invitations,
                   NewInvitation(t, Placeholder(Len(invitations) + 1), u, now))
            /\ resp' = Response("invite", u, 201, "created")
    /\ UNCHANGED <<now, users, settings, teams, members, projects, entries, pc>>

\* POST teams/<pk>/invite/ (TeamViewSet.invite): a link invitation
Invite(u, t) ==
    /\ IF t \notin VisibleTeams(u)
       THEN /\ invitations' = invitations
            /\ resp' = Response("invite", u, 404, "Not found")
       ELSE IF teams[t].owner # u
       THEN /\ invitations' = invitations
            /\ resp' = Response("invite", u, 403, "Only team owner can generate invitations")
       ELSE /\ Len(invitations) < MaxInvitations
            /\ invitations' = Append(invitations,
                   NewInvitation(t, Placeholder(Len(invitations) + 1), u, now))
            /\ resp' = Response("invite", u, 201, "created")
    /\ UNCHANGED <<now, users, settings, teams, members, projects, entries, pc>>

\* User.objects.get(email=email): the user with that address, NULL if none
UserByEmail(email) ==
    IF \E x \in DOMAIN users : users[x].email = email
    THEN CHOOSE x \in DOMAIN users : users[x].email = email
    ELSE NULL

\* The team lookup without the owner filter
AnyTeam(u, t) == t \in DOMAIN teams

\* Team.objects.get(id=team_id, owner=request.user) finds a row
OwnedTeam(u, t) == t \in DOMAIN teams /\ teams[t].owner = u

\* send_team_invitation without the membership tests
SendInvitationNoMemberTest(u, t, uid, email) ==
    /\ IF ~OwnedTeam(u, t)
       THEN /\ invitations' = invitations
            /\ resp' = Response("send", u, 404, "Team not found or you don't have permission")
       ELSE IF uid # NULL /\ uid \notin DOMAIN users
       THEN /\ invitations' = invitations
            /\ resp' = Response("send", u, 404, "User not found")
       ELSE IF uid = NULL /\ email # NULL /\ UserByEmail(email) = NULL
       THEN /\ invitations' = invitations
            /\ resp' = Response("send", u, 404, "No user found with this email")
       ELSE /\ Len(invitations) < MaxSent
            /\ invitations' = Append(invitations,
                   NewInvitation(t, IF uid # NULL THEN users[uid].email
                                    ELSE IF email # NULL THEN email
                                    ELSE Placeholder(Len(invitations) + 1), u, now))
            /\ resp' = Response("send", u, 201, "created")
    /\ UNCHANGED <<now, users, settings, teams, members, projects, entries, pc>>

\* POST teams/<team_id>/invite/ (send_team_invitation): uid is the user_id of
\* the request and email its stripped email, NULL when absent or empty.  The
\* three 201 responses differ in their wording only.
SendInvitation(u, t, uid, email) ==
    /\ IF ~OwnedTeam(u, t)
       THEN /\ invitations' = invitations
            /\ resp' = Response("send", u, 404, "Team not found or you don't have permission")
       ELSE IF uid # NULL
       THEN IF uid \notin DOMAIN users
            THEN /\ invitations' = invitations
                 /\ resp' = Response("send", u, 404, "User not found")
            ELSE IF IsMember(t, uid)
            THEN /\ invitations' = invitations
                 /\ resp' = Response("send", u, 400, "User is already a team member")
            ELSE /\ Len(invitations) < MaxSent
                 /\ invitations' = Append(invitations,
                        NewInvitation(t, users[uid].email, u, now))
                 /\ resp' = Response("send", u, 201, "created")
       ELSE IF email = NULL
       THEN /\ Len(invitations) < MaxSent
            /\ invitations' = Append(invitations,
                   NewInvitation(t, Placeholder(Len(invitations) + 1), u, now))
            /\ resp' = Response("send", u, 201, "created")
       ELSE IF UserByEmail(email) = NULL
       THEN /\ invitations' = invitations
            /\ resp' = Response("send", u, 404, "No user found with this email")
       ELSE IF IsMember(t, UserByEmail(email))
       THEN /\ invitations' = invitations
            /\ resp' = Response("send", u, 400, "User is already a team member")
       ELSE /\ Len(invitations) < MaxSent
            /\ invitations' = Append(invitations, NewInvitation(t, email, u, now))
            /\ resp' = Response("send", u, 201, "created")
    /\ UNCHANGED <<now, users, settings, teams, members, projects, entries, pc>>

\* The table without its row of (t, uid)
WithoutMember(ms, t, uid) ==
    SelectSeq(ms, LAMBDA m : ~(m.team = t /\ m.user = uid))

\* remove_member without the test that the requester owns the team
RemoveMemberNoOwnerTest(u, t, uid) ==
    /\ IF t \notin VisibleTeams(u)
       THEN /\ members' = members
            /\ resp' = Response("remove", u, 404, "Not found")
       ELSE IF uid = NULL
       THEN /\ members' = members
            /\ resp' = Response("remove", u, 400, "user_id is required")
       ELSE IF uid = Malformed
       THEN /\ members' = members
            /\ resp' = Response("remove", u, 400, "Invalid user_id format")
       ELSE IF uid = teams[t].owner
       THEN /\ members' = members
            /\ resp' = Response("remove", u, 400, "Cannot remove the team owner")
       ELSE IF ~IsMember(t, uid)
       THEN /\ members' = members
            /\ resp' = Response("remove", u, 404, "User is not a member of this team")
       ELSE /\ members' = WithoutMember(members, t, uid)
            /\ resp' = Response("remove", u, 200, "Member removed successfully")
    /\ UNCHANGED <<now, users, settings, teams, invitations, projects, entries, pc>>

\* DELETE teams/<pk>/remove-member/ (TeamViewSet.remove_member): uid is the
\* user_id of the request body, NULL when absent, Malformed when int() fails.
\* No row refers to a TeamMember row, so the table keeps the remaining rows
\* in their order.
RemoveMember(u, t, uid) ==
    /\ IF t \notin VisibleTeams(u)
       THEN /\ members' = members
            /\ resp' = Response("remove", u, 404, "Not found")
       ELSE IF teams[t].owner # u
       THEN /\ members' = members
            /\ resp' = Response("remove", u, 403, "Only team owner can remove members")
       ELSE IF uid = NULL
       THEN /\ members' = members
            /\ resp' = Response("remove", u, 400, "user_id is required")
       ELSE IF uid = Malformed
       THEN /\ members' = members
            /\ resp' = Response("remove", u, 400, "Invalid user_id format")
       ELSE IF uid = teams[t].owner
       THEN /\ members' = members
            /\ resp' = Response("remove", u, 400, "Cannot remove the team owner")
       ELSE IF ~IsMember(t, uid)
       THEN /\ members' = members
            /\ resp' = Response("remove", u, 404, "User is not a member of this team")
       ELSE /\ members' = WithoutMember(members, t, uid)
            /\ resp' = Response("remove", u, 200, "Member removed successfully")
    /\ UNCHANGED <<now, users, settings, teams, invitations, projects, entries, pc>>

\* TeamMember.objects.filter(team=t): the rows of the team.  TeamMember has
\* no Meta.ordering and the query no order_by; the rows are taken in the
\* order of their insertion, the order in which a table scan returns them.
TeamRows(t) == SelectSeq(members, LAMBDA m : m.team = t)

\* The element list_members reports for the owner
OwnerEntry(t) ==
    [user_id |-> teams[t].owner, role |-> "owner", joined_at |-> teams[t].created_at]

\* GET teams/<pk>/members/ (TeamViewSet.list_members) over the rows as the
\* database returned them; of each element the fields user_id, role and
\* joined_at
ListMembers(t, rows) ==
    LET member_data ==
            [i \in 1..Len(rows) |->
                IF rows[i].user = teams[t].owner
                THEN OwnerEntry(t)
                ELSE [user_id |-> rows[i].user, role |-> "member",
                      joined_at |-> rows[i].joined_at]]
        owner_in_members == \E i \in 1..Len(rows) : rows[i].user = teams[t].owner
    IN  IF owner_in_members THEN member_data ELSE <<OwnerEntry(t)>> \o member_data

\* TeamMember.objects.get_or_create(team=t, user=u)
GetOrCreateMember(ms, t, u, at) ==
    IF \E i \in DOMAIN ms : ms[i].team = t /\ ms[i].user = u
    THEN ms
    ELSE Append(ms, [team |-> t, user |-> u, joined_at |-> at])

\* POST teams/invitations/<token>/accept/
Accept(u, tok) ==
    /\ IF tok \notin DOMAIN invitations
       THEN /\ UNCHANGED <<members, invitations>>
            /\ resp' = Response("accept", u, 404, "Invitation not found")
       ELSE IF ~IsValid(invitations[tok], now)
       THEN /\ UNCHANGED <<members, invitations>>
            /\ resp' = Response("accept", u, 400, "Invitation has expired or is no longer valid")
       ELSE IF IsMember(invitations[tok].team, u)
       THEN /\ UNCHANGED <<members, invitations>>
            /\ resp' = Response("accept", u, 400, "You are already a member of this team")
       ELSE /\ members' = GetOrCreateMember(members, invitations[tok].team, u, now)
            /\ invitations' = [invitations EXCEPT ![tok].status = "accepted",
                                                  ![tok].accepted_at = now]
            /\ resp' = Response("accept", u, 200, "Successfully joined the team!")
    /\ UNCHANGED <<now, users, settings, teams, projects, entries, pc>>

\* decline with the validity test of accept
DeclineIfValid(u, tok) ==
    /\ IF tok \notin DOMAIN invitations
       THEN /\ invitations' = invitations
            /\ resp' = Response("decline", u, 404, "Invitation not found")
       ELSE IF ~IsValid(invitations[tok], now)
       THEN /\ invitations' = invitations
            /\ resp' = Response("decline", u, 400, "Invitation has expired or is no longer valid")
       ELSE /\ invitations' = [invitations EXCEPT ![tok].status = "declined"]
            /\ resp' = Response("decline", u, 200, "Invitation declined")
    /\ UNCHANGED <<now, users, settings, teams, members, projects, entries, pc>>

\* POST teams/invitations/<token>/decline/
Decline(u, tok) ==
    /\ IF tok \notin DOMAIN invitations
       THEN /\ invitations' = invitations
            /\ resp' = Response("decline", u, 404, "Invitation not found")
       ELSE /\ invitations' = [invitations EXCEPT ![tok].status = "declined"]
            /\ resp' = Response("decline", u, 200, "Invitation declined")
    /\ UNCHANGED <<now, users, settings, teams, members, projects, entries, pc>>

\* get_invitation_details answering for every invitation that exists
GetInvitationDetailsNoValidity(u, tok) ==
    /\ IF tok \notin DOMAIN invitations
       THEN resp' = Response("details", u, 404, "Invitation not found")
       ELSE resp' = Response("details", u, 200, invitations[tok].status)
    /\ UNCHANGED <<now, users, settings, teams, members, invitations, projects, entries, pc>>

\* GET teams/invitations/<token>/ (AllowAny): u is the caller, NULL when the
\* request carries no credentials.  The body of the 200 response is the
\* serialized invitation; the response keeps its status field.
GetInvitationDetails(u, tok) ==
    /\ IF tok \notin DOMAIN invitations
       THEN resp' = Response("details", u, 404, "Invitation not found")
       ELSE IF ~IsValid(invitations[tok], now)
       THEN resp' = Response("details", u, 400, "Invitation has expired or is no longer valid")
       ELSE resp' = Response("details", u, 200, invitations[tok].status)
    /\ UNCHANGED <<now, users, settings, teams, members, invitations, projects, entries, pc>>

\* The clock of the invitation runs advances by one day
TickDay ==
    /\ now + Day <= MaxDays * Day
    /\ now' = now + Day
    /\ UNCHANGED <<users, settings, teams, members, invitations, projects, entries, pc, resp>>

-----------------------------------------------------------------------------
(* accept served statement by statement, so that requests interleave: the   *)
(* lookup with the validity test, the membership test, the SELECT and the   *)
(* INSERT of get_or_create, and the save of the invitation.                 *)

\* INSERT into a table without the unique constraint
InsertMemberNoConstraint(ms, t, u, at) ==
    Append(ms, [team |-> t, user |-> u, joined_at |-> at])

\* The INSERT of get_or_create under unique_together = ('team', 'user'): a
\* duplicate raises IntegrityError, which get_or_create answers by reading
\* the existing row
InsertMember(ms, t, u, at) ==
    IF \E i \in DOMAIN ms : ms[i].team = t /\ ms[i].user = u
    THEN ms
    ELSE Append(ms, [team |-> t, user |-> u, joined_at |-> at])

AcceptBegin(p, u, tok) ==
    /\ pc[p].at = "idle"
    /\ IF tok \notin DOMAIN invitations
       THEN /\ resp' = Response("accept", u, 404, "Invitation not found")
            /\ pc' = pc
       ELSE IF ~IsValid(invitations[tok], now)
       THEN /\ resp' = Response("accept", u, 400, "Invitation has expired or is no longer valid")
            /\ pc' = pc
       ELSE /\ resp' = resp
            /\ pc' = [pc EXCEPT ![p] = [at |-> "member", user |-> u, arg |-> tok]]
    /\ UNCHANGED <<now, users, settings, teams, members, invitations, projects, entries>>

AcceptMember(p) ==
    /\ pc[p].at = "member"
    /\ IF IsMember(invitations[pc[p].arg].team, pc[p].user)
       THEN /\ resp' = Response("accept", pc[p].user, 400, "You are already a member of this team")
            /\ pc' = [pc EXCEPT ![p] = Idle]
       ELSE /\ resp' = resp
            /\ pc' = [pc EXCEPT ![p].at = "get"]
    /\ UNCHANGED <<now, users, settings, teams, members, invitations, projects, entries>>

AcceptGet(p) ==
    /\ pc[p].at = "get"
    /\ pc' = [pc EXCEPT ![p].at =
                 IF IsMember(invitations[pc[p].arg].team, pc[p].user)
                 THEN "save" ELSE "insert"]
    /\ UNCHANGED <<now, users, settings, teams, members, invitations, projects, entries, resp>>

AcceptInsert(p) ==
    /\ pc[p].at = "insert"
    /\ members' = InsertMember(members, invitations[pc[p].arg].team, pc[p].user, now)
    /\ pc' = [pc EXCEPT ![p].at = "save"]
    /\ UNCHANGED <<now, users, settings, teams, invitations, projects, entries, resp>>

AcceptSave(p) ==
    /\ pc[p].at = "save"
    /\ invitations' = [invitations EXCEPT ![pc[p].arg].status = "accepted",
                                          ![pc[p].arg].accepted_at = now]
    /\ resp' = Response("accept", pc[p].user, 200, "Successfully joined the team!")
    /\ pc' = [pc EXCEPT ![p] = Idle]
    /\ UNCHANGED <<now, users, settings, teams, members, projects, entries>>

-----------------------------------------------------------------------------
(* Projects: ProjectViewSet and the assign/unassign actions of TeamViewSet *)

\* The elements of a sequence, as a set (SELECT DISTINCT)
Distinct(s) == {s[i] : i \in DOMAIN s}

\* The number of times x occurs in the sequence s
Count(s, x) == Cardinality({i \in DOMAIN s : s[i] = x})

\* Team.objects.filter(owner=u) | Team.objects.filter(members__user=u): Team
\* LEFT OUTER JOIN TeamMember, one row per (team, member row) pair and one
\* for a team without member rows, filtered; the team id of each row
TeamJoin(u) ==
    LET joined(t) ==
            IF \E i \in DOMAIN members : members[i].team = t
            THEN SelectSeq(members, LAMBDA m : m.team = t /\ (teams[t].owner = u \/ m.user = u))
            ELSE IF teams[t].owner = u THEN <<[team |-> t]>> ELSE <<>>
        ids == SeqOfSet(DOMAIN teams)
        Cat[i \in 0..Len(ids)] ==
            IF i = 0 THEN <<>> ELSE Cat[i - 1] \o [j \in DOMAIN joined(ids[i]) |-> ids[i]]
    IN  Cat[Len(ids)]

\* (owned_teams | member_teams).distinct()
UserTeams(u) == Distinct(TeamJoin(u))

\* The two querysets of get_queryset one after the other, UNION ALL
ProjectListConcat(u) ==
    SelectSeq([i \in DOMAIN projects |-> i], LAMBDA p : projects[p].creator = u)
        \o SelectSeq([i \in DOMAIN projects |-> i],
                     LAMBDA p : projects[p].team \in UserTeams(u))

\* ProjectViewSet.get_queryset: (user_projects | team_projects).distinct(),
\* one SELECT DISTINCT over Project with the two filters joined by OR; the
\* ids of the rows
ProjectList(u) ==
    SeqOfSet(Distinct(
        SelectSeq([i \in DOMAIN projects |-> i],
                  LAMBDA p : projects[p].creator = u
                             \/ projects[p].team \in UserTeams(u))))

\* ProjectSerializer.__init__: Team.objects.filter(owner=request.user)
OwnedTeams(u) == {t \in DOMAIN teams : teams[t].owner = u}

\* POST projects/ with team_id = tid (NULL for null or absent)
CreateProject(u, tid) ==
    /\ IF tid # NULL /\ tid \notin OwnedTeams(u)
       THEN /\ projects' = projects
            /\ resp' = Response("create_project", u, 400, "Invalid pk")
       ELSE /\ Len(projects) < MaxProjects
            /\ projects' = Append(projects, [creator |-> u, team |-> tid])
            /\ resp' = Response("create_project", u, 201, "created")
    /\ UNCHANGED <<now, users, settings, teams, members, invitations, entries, pc>>

\* PUT/PATCH projects/<pid>/ (ModelViewSet.update) with team_id = tid: NULL
\* for null, Absent when the body has no team_id
UpdateProject(u, pid, tid) ==
    /\ IF pid \notin Distinct(ProjectList(u))
       THEN /\ projects' = projects
            /\ resp' = Response("update_project", u, 404, "Not found")
       ELSE IF tid = Absent
       THEN /\ projects' = projects
            /\ resp' = Response("update_project", u, 200, "updated")
       ELSE IF tid # NULL /\ tid \notin OwnedTeams(u)
       THEN /\ projects' = projects
            /\ resp' = Response("update_project", u, 400, "Invalid pk")
       ELSE /\ projects' = [projects EXCEPT ![pid].team = tid]
            /\ resp' = Response("update_project", u, 200, "updated")
    /\ UNCHANGED <<now, users, settings, teams, members, invitations, entries, pc>>

\* assign_project with any project of the table, not only the caller's own
AssignProjectAnyCreator(u, t, pid) ==
    /\ IF t \notin DOMAIN teams
       THEN /\ projects' = projects
            /\ resp' = Response("assign", u, 404, "Team does not exist")
       ELSE IF t \notin VisibleTeams(u)
       THEN /\ projects' = projects
            /\ resp' = Response("assign", u, 403, "You don't have access to team")
       ELSE IF teams[t].owner # u
       THEN /\ projects' = projects
            /\ resp' = Response("assign", u, 403, "Only team owner can assign projects")
       ELSE IF pid = NULL
       THEN /\ projects' = projects
            /\ resp' = Response("assign", u, 400, "project_id is required")
       ELSE IF pid \notin DOMAIN projects
       THEN /\ projects' = projects
            /\ resp' = Response("assign", u, 404, "Project not found or you don't have permission")
       ELSE /\ projects' = [projects EXCEPT ![pid].team = t]
            /\ resp' = Response("assign", u, 200, "Project assigned successfully")
    /\ UNCHANGED <<now, users, settings, teams, members, invitations, entries, pc>>

\* POST teams/<t>/assign-project/ with project_id = pid (NULL when absent)
AssignProject(u, t, pid) ==
    /\ IF t \notin DOMAIN teams
       THEN /\ projects' = projects
            /\ resp' = Response("assign", u, 404, "Team does not exist")
       ELSE IF t \notin VisibleTeams(u)
       THEN /\ projects' = projects
            /\ resp' = Response("assign", u, 403, "You don't have access to team")
       ELSE IF teams[t].owner # u
       THEN /\ projects' = projects
            /\ resp' = Response("assign", u, 403, "Only team owner can assign projects")
       ELSE IF pid = NULL
       THEN /\ projects' = projects
            /\ resp' = Response("assign", u, 400, "project_id is required")
       ELSE IF pid \notin DOMAIN projects \/ projects[pid].creator # u
       THEN /\ projects' = projects
            /\ resp' = Response("assign", u, 404, "Project not found or you don't have permission")
       ELSE /\ projects' = [projects EXCEPT ![pid].team = t]
            /\ resp' = Response("assign", u, 200, "Project assigned successfully")
    /\ UNCHANGED <<now, users, settings, teams, members, invitations, entries, pc>>

\* POST teams/<t>/unassign-project/ with project_id = pid (NULL when absent)
UnassignProject(u, t, pid) ==
    /\ IF t \notin VisibleTeams(u)
       THEN /\ projects' = projects
            /\ resp' = Response("unassign", u, 404, "Not found")
       ELSE IF teams[t].owner # u
       THEN /\ projects' = projects
            /\ resp' = Response("unassign", u, 403, "Only team owner can unassign projects")
       ELSE IF pid = NULL
       THEN /\ projects' = projects
            /\ resp' = Response("unassign", u, 400, "project_id is required")
       ELSE IF pid \notin DOMAIN projects \/ projects[pid].team # t
                                          \/ projects[pid].creator # u
       THEN /\ projects' = projects
            /\ resp' = Response("unassign", u, 404, "Project not found or not assigned to this team")
       ELSE /\ projects' = [projects EXCEPT ![pid].team = NULL]
            /\ resp' = Response("unassign", u, 200, "Project unassigned successfully")
    /\ UNCHANGED <<now, users, settings, teams, members, invitations, entries, pc>>

-----------------------------------------------------------------------------
(* The generic endpoints of TeamViewSet (ModelViewSet): update and destroy. *)
(* A deleted team leaves the table, which then is a function from the       *)
(* remaining primary keys to their rows.                                    *)

\* PUT/PATCH teams/<t>/ with the name and the description of the body; the
\* name is "" when empty after strip().  owner, id and created_at are
\* read-only fields of TeamSerializer.
UpdateTeam(u, t, name, description) ==
    /\ IF t \notin VisibleTeams(u)
       THEN /\ teams' = teams
            /\ resp' = Response("update_team", u, 404, "Not found")
       ELSE IF name = ""
       THEN /\ teams' = teams
            /\ resp' = Response("update_team", u, 400, "Team name cannot be empty")
       ELSE /\ teams' = [teams EXCEPT ![t].name = name, ![t].description = description]
            /\ resp' = Response("update_team", u, 200, "updated")
    /\ UNCHANGED <<now, users, settings, members, invitations, projects, entries, pc>>

\* DELETE teams/<t>/: the row goes, with it the TeamMember and TeamInvitation
\* rows of the team (on_delete=CASCADE), and the projects of the team lose
\* their team (on_delete=SET_NULL)
DeleteTeam(u, t) ==
    /\ IF t \notin VisibleTeams(u)
       THEN /\ UNCHANGED <<teams, members, invitations, projects>>
            /\ resp' = Response("delete_team", u, 404, "Not found")
       ELSE /\ teams' = [x \in DOMAIN teams \ {t} |-> teams[x]]
            /\ members' = SelectSeq(members, LAMBDA m : m.team # t)
            /\ invitations' = [k \in {j \in DOMAIN invitations : invitations[j].team # t}
                                  |-> invitations[k]]
            /\ projects' = [p \in DOMAIN projects |->
                               IF projects[p].team = t
                               THEN [projects[p] EXCEPT !.team = NULL]
                               ELSE projects[p]]
            /\ resp' = Response("delete_team", u, 204, "")
    /\ UNCHANGED <<now, users, settings, entries, pc>>

-----------------------------------------------------------------------------
(* The admin surface: AdminUserViewSet and AdminSettingsViewSet.  The       *)
(* ActivityLog row each handler appends is read by no handler of the model  *)
(* and is not part of its state.                                            *)

\* JWTAuthentication serves no user whose is_active is false
Authenticated(u) == users[u].is_active

\* permissions.IsAdminUser
IsAdminUser(u) == Authenticated(u) /\ users[u].is_staff

\* permissions.IsSuperAdmin
IsSuperAdmin(u) == Authenticated(u) /\ users[u].is_superuser

\* The flags of AdminUserUpdateSerializer, every one of them writable
UpdateFields == {"is_active", "is_staff", "is_superuser"}

\* The row after serializer.save() of a body carrying the fields of data
Updated(row, data) ==
    [f \in DOMAIN row |-> IF f \in DOMAIN data \cap UpdateFields THEN data[f] ELSE row[f]]

\* The response of a request refused before its handler runs
Denied(op, u) ==
    IF Authenticated(u)
    THEN Response(op, u, 403, "You must be an admin to access this resource.")
    ELSE Response(op, u, 401, "User is inactive")

\* PATCH admin/users/<v>/ with the body data
AdminUpdateUser(u, v, data) ==
    /\ IF ~IsAdminUser(u)
       THEN /\ users' = users
            /\ resp' = Denied("admin_update", u)
       ELSE IF v \notin DOMAIN users
       THEN /\ users' = users
            /\ resp' = Response("admin_update", u, 404, "Not found")
       ELSE /\ users' = [users EXCEPT ![v] = Updated(users[v], data)]
            /\ resp' = Response("admin_update", u, 200, "updated")
    /\ UNCHANGED <<now, teams, members, invitations, projects, entries, pc, settings>>

\* POST admin/users/<v>/suspend/ (active = FALSE) and .../activate/ (TRUE)
SetActive(u, v, active) ==
    /\ IF ~IsAdminUser(u)
       THEN /\ users' = users
            /\ resp' = Denied("admin_set_active", u)
       ELSE IF v \notin DOMAIN users
       THEN /\ users' = users
            /\ resp' = Response("admin_set_active", u, 404, "Not found")
       ELSE /\ users' = [users EXCEPT ![v].is_active = active]
            /\ resp' = Response("admin_set_active", u, 200,
                                IF active THEN "activated" ELSE "suspended")
    /\ UNCHANGED <<now, teams, members, invitations, projects, entries, pc, settings>>

\* str() of a Python bool
Str(b) == IF b THEN "True" ELSE "False"

\* POST admin/settings/ with a body of valid settings: update_or_create of
\* one row per key of the body
UpdateSettings(u, data) ==
    /\ IF ~IsSuperAdmin(u)
       THEN /\ settings' = settings
            /\ resp' = IF Authenticated(u)
                       THEN Response("admin_settings", u, 403,
                                     "You must be a superadmin to access this resource.")
                       ELSE Response("admin_settings", u, 401, "User is inactive")
       ELSE /\ settings' = [k \in DOMAIN settings \cup DOMAIN data |->
                               IF k \in DOMAIN data
                               THEN [value |-> Str(data[k]), updated_by |-> u]
                               ELSE settings[k]]
            /\ resp' = Response("admin_settings", u, 200, "Settings updated successfully")
    /\ UNCHANGED <<now, users, teams, members, invitations, projects, entries, pc>>

-----------------------------------------------------------------------------
(* Initial tables *)

\* user.User: the flag start reads, and the e-mail address
UserRow(staff, email) == [is_staff |-> staff, email |-> email]

\* Two registered users and nothing else
Init ==
    /\ now = 0
    /\ users = [u \in {1, 2} |-> UserRow(FALSE, u)]
    /\ teams = <<>>
    /\ members = <<>>
    /\ invitations = <<>>
    /\ projects = <<>>
    /\ entries = <<>>
    /\ pc = [p \in Procs |-> Idle]
    /\ resp = NoResponse
    /\ settings = <<>>

\* Three users of whom user 3 is staff, one team owned by user 1 with user 2
\* a member of it or not, and one project created by user 1 or 2 and
\* assigned to the team or to none.
PermInit ==
    /\ now = 0
    /\ users = [u \in {1, 2, 3} |-> UserRow(u = 3, u)]
    /\ teams = <<[owner |-> 1, created_at |-> 0]>>
    /\ \E M \in {{}, {2}} :
          members = [i \in 1..Cardinality(M) |->
                        [team |-> 1, user |-> SeqOfSet(M)[i], joined_at |-> 0]]
    /\ invitations = <<>>
    /\ \E c \in {1, 2}, t \in {NULL, 1} :
          projects = <<[creator |-> c, team |-> t]>>
    /\ entries = <<>>
    /\ pc = [p \in Procs |-> Idle]
    /\ resp = NoResponse
    /\ settings = <<>>

\* Project ids a request may name: none, an existing one, a missing one
ProjectArgs == {NULL} \cup (1..(Len(projects) + 1))

EntryArgs == 1..(Len(entries) + 1)

\* The timer endpoints, each request served as one step
Next ==
    \/ Tick
    \/ \E u \in DOMAIN users, pid \in ProjectArgs : Start(u, pid)
    \/ \E u \in DOMAIN users : Stop(u)
    \/ \E u \in DOMAIN users, id \in EntryArgs, run \in BOOLEAN : UpdateEntry(u, id, run)

Spec == Init /\ [][Next]_vars

\* start and stop only
StartStopNext ==
    \/ Tick
    \/ \E u \in DOMAIN users, pid \in ProjectArgs : Start(u, pid)
    \/ \E u \in DOMAIN users : Stop(u)

StartStopSpec == Init /\ [][StartStopNext]_vars

\* start and stop over the tables of PermInit, all requests at one instant
PermNext ==
    \/ \E u \in DOMAIN users, pid \in ProjectArgs : Start(u, pid)
    \/ \E u \in DOMAIN users : Stop(u)

PermSpec == PermInit /\ [][PermNext]_vars

\* Two start requests at a time, their steps interleaved
ConcNext ==
    \/ Tick
    \/ \E p \in Procs, u \in DOMAIN users, pid \in ProjectArgs : StartUpdate(p, u, pid)
    \/ \E p \in Procs : StartFinish(p)

ConcSpec == Init /\ [][ConcNext]_vars

\* Two users and one team, owned by user 1
InvInit ==
    /\ now = 0
    /\ users = [u \in {1, 2} |-> UserRow(FALSE, u)]
    /\ teams = <<[owner |-> 1, created_at |-> 0]>>
    /\ members = <<>>
    /\ invitations = <<>>
    /\ projects = <<>>
    /\ entries = <<>>
    /\ pc = [p \in Procs |-> Idle]
    /\ resp = NoResponse
    /\ settings = <<>>

TeamArgs == 1..(Len(teams) + 1)

\* Tokens a request may carry: those of the invitations, and an unknown one
TokenArgs == 1..(Len(invitations) + 1)

\* The invitation endpoints, each request served as one step
InvNext ==
    \/ TickDay
    \/ \E u \in DOMAIN users, t \in TeamArgs : Invite(u, t)
    \/ \E u \in DOMAIN users, tok \in TokenArgs : Accept(u, tok)
    \/ \E u \in DOMAIN users, tok \in TokenArgs : Decline(u, tok)
    \/ \E u \in DOMAIN users \cup {NULL}, tok \in TokenArgs : GetInvitationDetails(u, tok)

InvSpec == InvInit /\ [][InvNext]_vars

\* Two accept requests at a time, their statements interleaved
AcceptRaceNext ==
    \/ \E u \in DOMAIN users, t \in TeamArgs : Invite(u, t)
    \/ \E p \in Procs, u \in DOMAIN users, tok \in TokenArgs : AcceptBegin(p, u, tok)
    \/ \E p \in Procs : AcceptMember(p)
    \/ \E p \in Procs : AcceptGet(p)
    \/ \E p \in Procs : AcceptInsert(p)
    \/ \E p \in Procs : AcceptSave(p)

AcceptRaceSpec == InvInit /\ [][AcceptRaceNext]_vars

\* user_id of a request: absent, malformed, a user's, no user's
UserIdArgs == {NULL, Malformed} \cup (1..(Cardinality(DOMAIN users) + 1))

\* user_id of an invitation request: absent, a user's, no user's
TargetArgs == {NULL} \cup (1..(Cardinality(DOMAIN users) + 1))

\* email of an invitation request: empty, a user's, no user's
EmailArgs ==
    {NULL} \cup {users[x].email : x \in DOMAIN users} \cup {Cardinality(DOMAIN users) + 1}

\* The team endpoints, each request served as one step, all at one instant
TeamNext ==
    \/ \E u \in DOMAIN users, t \in TeamArgs : Invite(u, t)
    \/ \E u \in DOMAIN users, t \in TeamArgs, uid \in TargetArgs, email \in EmailArgs :
          SendInvitation(u, t, uid, email)
    \/ \E u \in DOMAIN users, tok \in TokenArgs : Accept(u, tok)
    \/ \E u \in DOMAIN users, t \in TeamArgs, uid \in UserIdArgs : RemoveMember(u, t, uid)

TeamSpec == InvInit /\ [][TeamNext]_vars

\* Two users, each the owner of one team, with some of the memberships
\* (team 1, user 1), (team 1, user 2), (team 2, user 1), and no project
ProjInit ==
    /\ now = 0
    /\ users = [u \in {1, 2} |-> UserRow(FALSE, u)]
    /\ teams = <<[owner |-> 1, created_at |-> 0], [owner |-> 2, created_at |-> 0]>>
    /\ \E M \in SUBSET {<<1, 1>>, <<1, 2>>, <<2, 1>>} :
          members = [i \in 1..Cardinality(M) |->
                        [team |-> SeqOfSet(M)[i][1], user |-> SeqOfSet(M)[i][2],
                         joined_at |-> 0]]
    /\ invitations = <<>>
    /\ projects = <<>>
    /\ entries = <<>>
    /\ pc = [p \in Procs |-> Idle]
    /\ resp = NoResponse
    /\ settings = <<>>

\* team_id of a project request: null, absent, a team's, no team's
TeamIdArgs == {NULL, Absent} \cup TeamArgs

\* The project endpoints, each request served as one step
ProjNext ==
    \/ \E u \in DOMAIN users, tid \in {NULL} \cup TeamArgs : CreateProject(u, tid)
    \/ \E u \in DOMAIN users, pid \in 1..(Len(projects) + 1), tid \in TeamIdArgs :
          UpdateProject(u, pid, tid)
    \/ \E u \in DOMAIN users, t \in TeamArgs, pid \in ProjectArgs : AssignProject(u, t, pid)
    \/ \E u \in DOMAIN users, t \in TeamArgs, pid \in ProjectArgs : UnassignProject(u, t, pid)

ProjSpec == ProjInit /\ [][ProjNext]_vars

\* Three users; team 1 of user 1 with user 2 a member, team 2 of user 2 with
\* or without user 3 a member; a project of user 1 in team 1
TeamEditInit ==
    /\ now = 0
    /\ users = [u \in {1, 2, 3} |-> UserRow(FALSE, u)]
    /\ teams = <<[owner |-> 1, created_at |-> 0, name |-> "a", description |-> ""],
                 [owner |-> 2, created_at |-> 0, name |-> "b", description |-> ""]>>
    /\ \/ members = <<[team |-> 1, user |-> 2, joined_at |-> 0]>>
       \/ members = <<[team |-> 1, user |-> 2, joined_at |-> 0],
                      [team |-> 2, user |-> 3, joined_at |-> 0]>>
    /\ invitations = <<>>
    /\ projects = <<[creator |-> 1, team |-> 1]>>
    /\ entries = <<>>
    /\ pc = [p \in Procs |-> Idle]
    /\ resp = NoResponse
    /\ settings = <<>>

\* The ids of the two teams of TeamEditInit and an id of no team
TeamPkArgs == 1..3

\* The generic team endpoints, each request served as one step
TeamEditNext ==
    \/ \E u \in DOMAIN users, t \in TeamPkArgs, name \in {"", "a", "c"},
          description \in {"", "d"} : UpdateTeam(u, t, name, description)
    \/ \E u \in DOMAIN users, t \in TeamPkArgs : DeleteTeam(u, t)

TeamEditSpec == TeamEditInit /\ [][TeamEditNext]_vars

\* A user row with the flags the admin surface reads and writes
AdminRow(staff, super, email) ==
    [is_staff |-> staff, is_superuser |-> super, is_active |-> TRUE, email |-> email]

\* User 1 is staff and not superuser, user 2 is neither: no superuser, so
\* every request is one of a staff-only or of a plain user
AdminInit ==
    /\ now = 0
    /\ users = [u \in {1, 2} |-> AdminRow(u = 1, FALSE, u)]
    /\ teams = <<>>
    /\ members = <<>>
    /\ invitations = <<>>
    /\ projects = <<>>
    /\ entries = <<>>
    /\ pc = [p \in Procs |-> Idle]
    /\ resp = NoResponse
    /\ settings = <<>>

\* The bodies of PATCH admin/users/<pk>/: any of the flags, each with a value
UserData == UNION {[F -> BOOLEAN] : F \in SUBSET UpdateFields}

\* The bodies of POST admin/settings/, of the boolean setting maintenance_mode
SettingsData == UNION {[K -> BOOLEAN] : K \in SUBSET {"maintenance_mode"}}

\* The admin endpoints that write users and settings; 3 is the id of no user
AdminNext ==
    \/ \E u \in DOMAIN users, v \in DOMAIN users \cup {Cardinality(DOMAIN users) + 1},
          data \in UserData : AdminUpdateUser(u, v, data)
    \/ \E u \in DOMAIN users, v \in DOMAIN users \cup {Cardinality(DOMAIN users) + 1},
          active \in BOOLEAN : SetActive(u, v, active)
    \/ \E u \in DOMAIN users, data \in SettingsData : UpdateSettings(u, data)

AdminSpec == AdminInit /\ [][AdminNext]_vars

\* Numbers of seconds around the digit and field boundaries of HH:MM:SS
Elapsed ==
    {h * 3600 + m * 60 + s : h \in {0, 1, 9, 10, MaxHours}, m \in {0, 1, 59}, s \in {0, 30, 59}}

\* User 1 started an entry at time 0, and some time has passed since
ReportInit ==
    /\ now \in Elapsed
    /\ users = [u \in {1, 2} |-> UserRow(FALSE, u)]
    /\ teams = <<>>
    /\ members = <<>>
    /\ invitations = <<>>
    /\ projects = <<>>
    /\ entries = <<NewEntry(1, NULL, 0)>>
    /\ pc = [p \in Procs |-> Idle]
    /\ resp = NoResponse
    /\ settings = <<>>

\* start, stop and the report at one instant
ReportNext ==
    \/ \E u \in DOMAIN users, pid \in ProjectArgs : Start(u, pid)
    \/ \E u \in DOMAIN users : Stop(u)
    \/ \E u \in DOMAIN users : Report(u)

ReportSpec == ReportInit /\ [][ReportNext]_vars

-----------------------------------------------------------------------------
(* Properties *)

\* C1: in every state reached by start and stop requests, each served as one
\* step, every user has at most one TimeEntry with is_running = TRUE.
C1_AtMostOneRunning ==
    \A u \in DOMAIN users : Cardinality(RunningIds(entries, u)) <= 1

\* A start that found the caller's earlier entry running: the earlier entry
\* is stopped and the new one runs.
C1_Witness ==
    /\ resp.op = "start" /\ resp.status = 201
    /\ \E i, j \in DOMAIN entries :
          /\ entries[i].user = resp.user /\ entries[j].user = resp.user
          /\ i < j /\ entries[i].end_time = entries[j].start_time
          /\ ~entries[i].is_running /\ entries[j].is_running

\* C2: when two start requests of one user interleave their bulk UPDATE and
\* their INSERT in any order, the user never has two running entries.
C2_NoTwoRunning ==
    \A i, j \in DOMAIN entries :
        (entries[i].user = entries[j].user /\ entries[i].is_running
            /\ entries[j].is_running) => i = j

\* C3: when a user's successful start is followed by another successful
\* start of the same user, the first entry ends up stopped with end_time and
\* duration set, and active returns the second entry.
C3_RestartClosesFirst ==
    [][\A u \in DOMAIN users :
          (/\ resp.op = "start" /\ resp.user = u /\ resp.status = 201
           /\ \E pid \in ProjectArgs : Start(u, pid)
           /\ resp'.status = 201)
          => /\ \A i \in RunningIds(entries, u) :
                   /\ ~entries'[i].is_running
                   /\ entries'[i].end_time # NULL
                   /\ entries'[i].duration # NULL
             /\ Active(u)' = {Len(entries')}]_vars

\* C4: every TimeEntry with start_time and end_time set has
\* duration = end_time - start_time, whichever request set its end_time.
C4_DurationDerived ==
    \A i \in DOMAIN entries :
        (entries[i].start_time # NULL /\ entries[i].end_time # NULL)
            => entries[i].duration = entries[i].end_time - entries[i].start_time

\* C5: a start that fails with 404 (no such project) or 403 (no permission)
\* leaves every TimeEntry as it was.
C5_FailedStartNoEffect ==
    [][\A u \in DOMAIN users, pid \in ProjectArgs :
          (Start(u, pid) /\ resp'.status \in {403, 404}) => entries' = entries]_vars

\* The permission rule of C6, stated on the tables
Allowed(u, pid) ==
    \/ projects[pid].creator = u
    \/ users[u].is_staff
    \/ /\ projects[pid].team # NULL
       /\ \/ teams[projects[pid].team].owner = u
          \/ \E m \in DOMAIN members :
                members[m].team = projects[pid].team /\ members[m].user = u

\* C6: start on an existing project creates a running entry for that project
\* exactly when the caller is its creator, or staff, or owner or member of the
\* project's team; otherwise it answers 403 and creates no entry.
C6_StartPermission ==
    [][\A u \in DOMAIN users, pid \in DOMAIN projects :
          Start(u, pid) =>
              IF Allowed(u, pid)
              THEN /\ resp'.status = 201
                   /\ Len(entries') = Len(entries) + 1
                   /\ entries'[Len(entries')] = NewEntry(u, pid, now)
              ELSE /\ resp'.status = 403
                   /\ Len(entries') = Len(entries)]_vars

\* A user who is neither creator nor staff was refused a project that has no
\* team, and an entry of another user exists for that project.
C6_Witness ==
    /\ resp.op = "start" /\ resp.status = 403
    /\ projects[1].team = NULL
    /\ projects[1].creator # resp.user
    /\ ~users[resp.user].is_staff
    /\ \E i \in DOMAIN entries :
          entries[i].project = 1 /\ entries[i].user # projects[1].creator

\* C7: stop without a running entry answers 400 and changes no entry; with a
\* running entry it sets that entry's end_time to now and is_running to
\* FALSE, leaves the other entries alone, and the user has no running entry
\* afterwards.
C7_StopContract ==
    [][\A u \in DOMAIN users :
          Stop(u) =>
              IF RunningIds(entries, u) = {}
              THEN resp'.status = 400 /\ entries' = entries
              ELSE /\ resp'.status = 200
                   /\ \E i \in RunningIds(entries, u) :
                         /\ entries'[i].end_time = now
                         /\ ~entries'[i].is_running
                         /\ \A j \in DOMAIN entries \ {i} : entries'[j] = entries[j]
                   /\ RunningIds(entries', u) = {}]_vars

\* C8: a stopped TimeEntry (is_running = FALSE, end_time set) never runs
\* again and keeps its end_time and duration under every request.
C8_StoppedImmutable ==
    [][\A i \in DOMAIN entries :
          (~entries[i].is_running /\ entries[i].end_time # NULL)
              => /\ ~entries'[i].is_running
                 /\ entries'[i].end_time = entries[i].end_time
                 /\ entries'[i].duration = entries[i].duration]_vars

\* C9: once an invitation is accepted or declined, no accept or decline
\* request changes its status again.
C9_StatusChangesOnce ==
    [][\A i \in DOMAIN invitations :
          invitations[i].status \in {"accepted", "declined"}
              => invitations'[i].status = invitations[i].status]_vars

JustAccepted(u, tok) ==
    /\ resp.op = "accept" /\ resp.user = u /\ resp.status = 200
    /\ invitations[tok].status = "accepted"
    /\ \E m \in DOMAIN members :
          /\ members[m].team = invitations[tok].team
          /\ members[m].user = u
          /\ members[m].joined_at = invitations[tok].accepted_at

\* C11 as claimed: when a user accepts the same invitation a second time,
\* the second accept answers already-a-member and adds no TeamMember row.
C11_SecondAcceptConflict ==
    [][\A u \in DOMAIN users, tok \in DOMAIN invitations :
          (JustAccepted(u, tok) /\ Accept(u, tok))
              => /\ resp'.status = 400
                 /\ resp'.detail = "You are already a member of this team"
                 /\ Len(members') = Len(members)]_vars

\* C11 as amended: the second accept of the same invitation by the same user
\* answers that the invitation is no longer valid (the validity test comes
\* before the membership test), and adds no TeamMember row.
C11_SecondAcceptInvalid ==
    [][\A u \in DOMAIN users, tok \in DOMAIN invitations :
          (JustAccepted(u, tok) /\ Accept(u, tok))
              => /\ resp'.status = 400
                 /\ resp'.detail = "Invitation has expired or is no longer valid"
                 /\ members' = members]_vars

\* The second accept has been refused while the invitation is unexpired.
C11_Witness ==
    /\ resp.op = "accept" /\ resp.status = 400
    /\ resp.detail = "Invitation has expired or is no longer valid"
    /\ Len(members) = 1
    /\ \E tok \in DOMAIN invitations :
          /\ invitations[tok].status = "accepted"
          /\ invitations[tok].expires_at > now
          /\ \E m \in DOMAIN members :
                /\ members[m].team = invitations[tok].team
                /\ members[m].user = resp.user
                /\ members[m].joined_at = invitations[tok].accepted_at

\* C12: under any interleaving of the statements of concurrent accept calls,
\* there is never more than one TeamMember row for a (team, user) pair.
C12_OneRowPerTeamUser ==
    \A i, j \in DOMAIN members :
        (members[i].team = members[j].team /\ members[i].user = members[j].user)
            => i = j

\* Two accepts of one token by one user have both passed the membership test
\* and get_or_create, and the table holds that user's row.
C12_Witness ==
    /\ pc[1].at = "save" /\ pc[2].at = "save"
    /\ pc[1].user = pc[2].user /\ pc[1].arg = pc[2].arg
    /\ IsMember(invitations[pc[1].arg].team, pc[1].user)

\* C13: every invitation is created pending with expires_at = creation time
\* + 7 days and is valid right after its creation; at any time >= expires_at
\* is_valid() is false although the stored status still reads pending, and
\* an accept at such a time creates no membership.
C13_InvitationExpiry ==
    [][/\ \A tok \in DOMAIN invitations' :
             /\ invitations'[tok].expires_at = invitations'[tok].created_at + 7 * 86400
             /\ tok \notin DOMAIN invitations =>
                   /\ invitations'[tok].status = "pending"
                   /\ invitations'[tok].created_at = now
                   /\ IsValid(invitations'[tok], now')
       /\ \A u \in DOMAIN users, tok \in DOMAIN invitations :
             (now >= invitations[tok].expires_at /\ invitations[tok].status = "pending") =>
                   /\ ~IsValid(invitations[tok], now)
                   /\ Accept(u, tok) =>
                         /\ resp'.status = 400
                         /\ members' = members
                         /\ invitations' = invitations]_vars

\* An accept has been refused at the expiry instant of a pending invitation.
C13_Witness ==
    /\ resp.op = "accept" /\ resp.status = 400
    /\ resp.detail = "Invitation has expired or is no longer valid"
    /\ members = <<>>
    /\ \E tok \in DOMAIN invitations :
          /\ invitations[tok].status = "pending"
          /\ invitations[tok].expires_at = now

Callers == DOMAIN users \cup {NULL}

\* C14 as claimed: getInvitationByToken fails only with NotFound, and only
\* for an unknown token; for every existing invitation, whatever its status
\* or expiry and whoever the caller, it returns the detail and changes no
\* state.
C14_DetailsForEveryInvitation ==
    [][\A u \in Callers, tok \in TokenArgs :
          GetInvitationDetails(u, tok) =>
              /\ resp'.status = (IF tok \in DOMAIN invitations THEN 200 ELSE 404)
              /\ UNCHANGED <<now, users, settings, teams, members, invitations, projects, entries>>]_vars

\* C14 as amended: getInvitationByToken fails with NotFound exactly when no
\* invitation has the token and with InvalidState exactly when the
\* invitation is not pending or has expired; for every valid invitation,
\* whoever the caller, it returns the detail; it never changes state.
C14_DetailsForValidInvitation ==
    [][\A u \in Callers, tok \in TokenArgs :
          GetInvitationDetails(u, tok) =>
              /\ resp'.status =
                    (IF tok \notin DOMAIN invitations THEN 404
                     ELSE IF invitations[tok].status = "pending"
                             /\ now < invitations[tok].expires_at THEN 200
                     ELSE 400)
              /\ UNCHANGED <<now, users, settings, teams, members, invitations, projects, entries>>]_vars

\* A caller without credentials has been refused the detail of an invitation
\* that exists.
C14_Witness ==
    /\ resp.op = "details" /\ resp.user = NULL /\ resp.status = 400
    /\ invitations # <<>>

\* C15: decline on an existing token always succeeds and leaves the
\* invitation declined, without a validity test (also on an expired
\* invitation), and creates or deletes no TeamMember row; on an unknown
\* token it returns NotFound and changes nothing.
C15_DeclineUnconditional ==
    [][\A u \in DOMAIN users, tok \in TokenArgs :
          Decline(u, tok) =>
              IF tok \in DOMAIN invitations
              THEN /\ resp'.status = 200
                   /\ invitations' = [invitations EXCEPT ![tok].status = "declined"]
                   /\ members' = members
              ELSE /\ resp'.status = 404
                   /\ invitations' = invitations
                   /\ members' = members]_vars

\* The last request served is a successful decline, the declined invitation
\* is past its expiry, and no TeamMember row exists.
C15_Witness ==
    /\ resp.op = "decline" /\ resp.status = 200
    /\ members = <<>>
    /\ \E tok \in DOMAIN invitations :
          /\ invitations[tok].status = "declined"
          /\ invitations[tok].expires_at <= now

\* Every invitation was made by the owner of its team
InvitedByOwner(invs) ==
    \A tok \in DOMAIN invs : invs[tok].invited_by = teams[invs[tok].team].owner

\* C16 as claimed: an invite call by an actor who is not the team's owner,
\* a member or a user with no relation to the team, fails with Forbidden and
\* creates no TeamInvitation; every TeamInvitation has invited_by equal to
\* the owner of its team.
C16_NonOwnerForbidden ==
    [][/\ \A u \in DOMAIN users, t \in DOMAIN teams :
             (/\ teams[t].owner # u
              /\ \/ Invite(u, t)
                 \/ \E uid \in TargetArgs, email \in EmailArgs :
                       SendInvitation(u, t, uid, email))
                 => resp'.status = 403 /\ invitations' = invitations
       /\ InvitedByOwner(invitations')]_vars

\* C16 as amended: an invite call by an actor who is not the team's owner
\* creates no TeamInvitation and fails: TeamViewSet.invite with Forbidden for
\* a member of the team and with NotFound for a user with no relation to it,
\* send_team_invitation with NotFound for both; every TeamInvitation has
\* invited_by equal to the owner of its team.
C16_NonOwnerRefused ==
    [][/\ \A u \in DOMAIN users, t \in DOMAIN teams :
             teams[t].owner # u =>
                /\ Invite(u, t) =>
                      /\ resp'.status = (IF IsMember(t, u) THEN 403 ELSE 404)
                      /\ invitations' = invitations
                /\ \A uid \in TargetArgs, email \in EmailArgs :
                      SendInvitation(u, t, uid, email) =>
                         /\ resp'.status = 404
                         /\ invitations' = invitations
       /\ InvitedByOwner(invitations')]_vars

\* A member who is not the owner has been refused an invitation link.
C16_Witness ==
    /\ resp.op = "invite" /\ resp.status = 403
    /\ \E t \in DOMAIN teams : IsMember(t, resp.user) /\ teams[t].owner # resp.user
    /\ invitations # <<>>
    /\ InvitedByOwner(invitations)

\* The user an invitation request names: by user_id if it carries one, else
\* by email; NULL if it names no user
Target(uid, email) ==
    IF uid # NULL
    THEN (IF uid \in DOMAIN users THEN uid ELSE NULL)
    ELSE UserByEmail(email)

\* The step appends one pending invitation of team t for the address email
CreatesInvitation(t, email) ==
    /\ Len(invitations') = Len(invitations) + 1
    /\ SubSeq(invitations', 1, Len(invitations)) = invitations
    /\ invitations'[Len(invitations')].team = t
    /\ invitations'[Len(invitations')].status = "pending"
    /\ invitations'[Len(invitations')].email = email

IsPlaceholder(email) == \E n \in DOMAIN invitations : email = Placeholder(n)

DeletesExactly(t, uid) ==
    /\ Len(members') = Len(members) - 1
    /\ \A j \in DOMAIN members' : ~(members'[j].team = t /\ members'[j].user = uid)
    /\ \A i \in DOMAIN members :
          (members[i].team # t \/ members[i].user # uid)
              => \E j \in DOMAIN members' : members'[j] = members[i]

\* C19 as claimed: removeMember deletes exactly the target's TeamMember row,
\* and only when the actor owns the team and the target is a member other
\* than the owner; a non-owner actor gets Forbidden, targeting the owner gets
\* Conflict, targeting a non-member gets NotFound, and in these three cases
\* the memberships are unchanged.
C19_RemoveMember ==
    [][\A u \in DOMAIN users, t \in DOMAIN teams, uid \in UserIdArgs :
          RemoveMember(u, t, uid) =>
             IF teams[t].owner # u
             THEN resp'.status = 403 /\ members' = members
             ELSE IF uid \in {NULL, Malformed}
             THEN members' = members
             ELSE IF uid = teams[t].owner
             THEN /\ resp'.status = 400
                  /\ resp'.detail = "Cannot remove the team owner"
                  /\ members' = members
             ELSE IF ~IsMember(t, uid)
             THEN resp'.status = 404 /\ members' = members
             ELSE resp'.status = 200 /\ DeletesExactly(t, uid)]_vars

\* C19 as amended: as claimed, except that an actor who is not the owner
\* gets Forbidden only when a member of the team, and NotFound when a user
\* with no relation to the team.
C19_RemoveMemberVisible ==
    [][\A u \in DOMAIN users, t \in DOMAIN teams, uid \in UserIdArgs :
          RemoveMember(u, t, uid) =>
             IF teams[t].owner # u
             THEN /\ resp'.status = (IF IsMember(t, u) THEN 403 ELSE 404)
                  /\ members' = members
             ELSE IF uid \in {NULL, Malformed}
             THEN members' = members
             ELSE IF uid = teams[t].owner
             THEN /\ resp'.status = 400
                  /\ resp'.detail = "Cannot remove the team owner"
                  /\ members' = members
             ELSE IF ~IsMember(t, uid)
             THEN resp'.status = 404 /\ members' = members
             ELSE resp'.status = 200 /\ DeletesExactly(t, uid)]_vars

\* The owner has removed a member, and the owner's own TeamMember row is the
\* one that is left.
C19_Witness ==
    /\ resp.op = "remove" /\ resp.status = 200
    /\ Len(members) = 1
    /\ \E t \in DOMAIN teams : teams[t].owner = resp.user /\ IsMember(t, resp.user)

\* C20: in every reachable state listMembers(team) returns the owner as its
\* first element, with role "owner" and joined_at equal to the team's
\* created_at; exactly one element has role "owner"; and every other user
\* with a TeamMember row appears exactly once, with role "member".
C20_OwnerFirst ==
    \A t \in DOMAIN teams :
        LET l == ListMembers(t, TeamRows(t)) IN
        /\ l[1].user_id = teams[t].owner
        /\ l[1].role = "owner"
        /\ l[1].joined_at = teams[t].created_at
        /\ Cardinality({i \in DOMAIN l : l[i].role = "owner"}) = 1
        /\ \A x \in DOMAIN users :
              (x # teams[t].owner /\ IsMember(t, x)) =>
                  /\ Cardinality({i \in DOMAIN l : l[i].user_id = x}) = 1
                  /\ \A i \in DOMAIN l : l[i].user_id = x => l[i].role = "member"

\* The project is visible to the user: the user is its creator, or owns its
\* team, or has a TeamMember row in its team
VisibleTo(u, p) ==
    \/ projects[p].creator = u
    \/ /\ projects[p].team # NULL
       /\ \/ teams[projects[p].team].owner = u
          \/ \E i \in DOMAIN members :
                members[i].team = projects[p].team /\ members[i].user = u

\* C21: the project list of a user contains a project exactly when the user
\* is its creator, or owns the project's team, or has a TeamMember row in the
\* project's team, and each such project appears exactly once.
C21_ProjectListOnce ==
    \A u \in DOMAIN users, p \in DOMAIN projects :
        Count(ProjectList(u), p) = (IF VisibleTo(u, p) THEN 1 ELSE 0)

\* A project is listed for a user who is its creator, the owner of its team
\* and a holder of a TeamMember row in that team, all at once.
C21_Witness ==
    \E u \in DOMAIN users, p \in DOMAIN projects :
        /\ projects[p].creator = u
        /\ projects[p].team # NULL
        /\ teams[projects[p].team].owner = u
        /\ IsMember(projects[p].team, u)
        /\ Count(ProjectList(u), p) = 1

\* C22: after a project is created, its team field is set or cleared only
\* by a call of the owner of the team concerned (the team it is set to and
\* the team it is taken from); in particular a generic project update by a
\* user who can see the project but does not own its team leaves
\* project.team as it was.
C22_TeamSetByOwnerOnly ==
    [][\A p \in DOMAIN projects :
          projects'[p].team # projects[p].team =>
             /\ projects[p].team # NULL => teams[projects[p].team].owner = resp'.user
             /\ projects'[p].team # NULL => teams[projects'[p].team].owner = resp'.user]_vars

\* The actor owns the team and is the creator of the project
OwnerAndCreator(u, t, pid) ==
    /\ t \in DOMAIN teams /\ teams[t].owner = u
    /\ pid \in DOMAIN projects /\ projects[pid].creator = u

\* C23: assignToTeam sets project.team = team only when the actor owns the
\* team and is the project's creator; unassignFromTeam clears project.team
\* only when in addition the project is assigned to that team; in every
\* other case the call fails with NotFound or Forbidden and project.team is
\* unchanged.  (A request without a project_id names no project: it is
\* refused and changes nothing.)
C23_AssignUnassign ==
    [][\A u \in DOMAIN users, t \in TeamArgs, pid \in ProjectArgs :
          /\ AssignProject(u, t, pid) =>
                IF OwnerAndCreator(u, t, pid)
                THEN /\ resp'.status = 200
                     /\ projects' = [projects EXCEPT ![pid].team = t]
                ELSE /\ projects' = projects
                     /\ resp'.status >= 400
                     /\ pid # NULL => resp'.status \in {403, 404}
          /\ UnassignProject(u, t, pid) =>
                IF OwnerAndCreator(u, t, pid) /\ projects[pid].team = t
                THEN /\ resp'.status = 200
                     /\ projects' = [projects EXCEPT ![pid].team = NULL]
                ELSE /\ projects' = projects
                     /\ resp'.status >= 400
                     /\ pid # NULL => resp'.status \in {403, 404}]_vars

\* The owner of a team has assigned to it a project of their own that was
\* created without a team or in no team.
C23_Witness ==
    /\ resp.op = "assign" /\ resp.status = 200
    /\ \E p \in DOMAIN projects :
          /\ projects[p].creator = resp.user
          /\ projects[p].team # NULL
          /\ teams[projects[p].team].owner = resp.user

\* C24: after any sequence of start and stop calls, report(user)'s total
\* equals the sum of end_time - start_time over exactly that user's entries
\* with non-null end_time; running entries and entries of other users
\* contribute nothing.
C24_ReportTotal ==
    \A u \in DOMAIN users :
        ReportTotal(u) =
            SumOver({i \in DOMAIN entries : entries[i].user = u /\ entries[i].end_time # NULL},
                    [i \in DOMAIN entries |-> entries[i].end_time - entries[i].start_time])

\* The number a sequence of digit characters denotes
RECURSIVE DigitsValue(_)
DigitsValue(cs) ==
    IF cs = <<>> THEN 0
    ELSE 10 * DigitsValue(SubSeq(cs, 1, Len(cs) - 1))
            + (CHOOSE d \in 0..9 : DigitChar(d) = cs[Len(cs)])

\* str is n seconds as HH:MM:SS: HH = n div 3600 in at least two digits and
\* no more than it needs, MM = (n mod 3600) div 60 and SS = n mod 60 in two
\* digits each, both below 60
IsHMS(str, n) ==
    LET k == Len(str) IN
    /\ k >= 8
    /\ str[k - 2] = ":" /\ str[k - 5] = ":"
    /\ \A i \in (1..k) \ {k - 2, k - 5} : \E d \in 0..9 : str[i] = DigitChar(d)
    /\ DigitsValue(SubSeq(str, 1, k - 6)) = n \div 3600
    /\ k > 8 => str[1] # "0"
    /\ DigitsValue(SubSeq(str, k - 4, k - 3)) = (n % 3600) \div 60
    /\ DigitsValue(SubSeq(str, k - 4, k - 3)) < 60
    /\ DigitsValue(SubSeq(str, k - 1, k)) = n % 60
    /\ DigitsValue(SubSeq(str, k - 1, k)) < 60

\* The entries of the user are one entry that ended 90 seconds after its start
Single90(u) ==
    \E i \in DOMAIN entries :
        /\ entries[i].user = u
        /\ entries[i].end_time # NULL
        /\ entries[i].end_time = entries[i].start_time + 90
        /\ \A j \in DOMAIN entries : (entries[j].user = u /\ entries[j].end_time # NULL) => j = i

\* The report formats its total as HH:MM:SS
ReportIsHMS == resp.op = "report" => IsHMS(resp.detail, ReportTotal(resp.user))

\* C25: for every non-negative whole number of seconds n the report formats
\* n as HH:MM:SS with HH = n div 3600 (at least two digits), MM = (n mod
\* 3600) div 60 and SS = n mod 60, zero-padded to two digits and below 60;
\* an entry with end_time = start_time + 90s has duration exactly 90 seconds
\* and is reported as "00:01:30".
C25_ReportFormat ==
    /\ ReportIsHMS
    /\ \A i \in DOMAIN entries :
          (entries[i].end_time # NULL /\ entries[i].end_time = entries[i].start_time + 90)
              => entries[i].duration = 90
    /\ (resp.op = "report" /\ Single90(resp.user))
          => resp.detail = <<"0", "0", ":", "0", "1", ":", "3", "0">>

\* C26: in every state reachable by start and stop calls, a TimeEntry has
\* is_running = true exactly when its end_time is null, and every running
\* entry has duration null.
C26_RunningIffNoEnd ==
    \A i \in DOMAIN entries :
        /\ entries[i].is_running <=> entries[i].end_time = NULL
        /\ entries[i].is_running => entries[i].duration = NULL

\* A start has ended a running entry of the user and created the next one.
C26_Witness ==
    /\ resp.op = "start" /\ resp.status = 201
    /\ \E i, j \in DOMAIN entries :
          /\ entries[i].user = resp.user /\ entries[j].user = resp.user
          /\ ~entries[i].is_running /\ entries[i].end_time = entries[j].start_time
          /\ entries[j].is_running /\ entries[j].end_time = NULL

\* C27: an invitation token admits at most one user: under any interleaving
\* of accept calls by different users on the same token, at most one
\* TeamMember row is ever created on account of that invitation.  Accept is
\* the only operation that creates TeamMember rows, so there are never more
\* rows than invitations.
C27_OneUserPerToken == Len(members) <= Len(invitations)

\* C28: the team owner counts as a member in the already-a-member tests:
\* accept(owner, token) on a valid invitation to the owner's own team returns
\* Conflict and creates no TeamMember row, and an invite that targets the
\* owner's own user_id or email returns Conflict and creates no invitation.
C28_OwnerIsMember ==
    [][/\ \A tok \in DOMAIN invitations :
             (/\ IsValid(invitations[tok], now)
              /\ Accept(teams[invitations[tok].team].owner, tok))
                 => /\ resp'.status = 400
                    /\ resp'.detail = "You are already a member of this team"
                    /\ members' = members
       /\ \A t \in DOMAIN teams, uid \in TargetArgs, email \in EmailArgs :
             (/\ Target(uid, email) = teams[t].owner
              /\ SendInvitation(teams[t].owner, t, uid, email))
                 => /\ resp'.status = 400
                    /\ resp'.detail = "User is already a team member"
                    /\ invitations' = invitations]_vars

\* C29: a team's name and description are changed, and the team is deleted,
\* only by requests of its owner: a generic update or delete issued by a
\* member who is not the owner leaves the Team and its memberships
\* unchanged; Team.owner never changes after creation.
C29_OwnerOnlyEdits ==
    [][\A t \in DOMAIN teams :
          /\ (t \notin DOMAIN teams' \/ teams'[t] # teams[t] \/ TeamRows(t)' # TeamRows(t))
                => resp'.user = teams[t].owner
          /\ t \in DOMAIN teams' => teams'[t].owner = teams[t].owner]_vars

\* C30: no sequence of admin operations of a user who is staff and not
\* superuser makes any user a superuser, so AdminSettings are never
\* modified as a consequence of them: where the users are a staff-only and
\* a plain one, nobody becomes a superuser and the settings stay as they were.
C30_NoEscalation ==
    /\ \A v \in DOMAIN users : ~users[v].is_superuser
    /\ settings = <<>>

====
